---- MODULE Spec2Model ----
(***************************************************************************)
(* Model of ralloc's memory blocks (src/block.rs).                         *)
(*                                                                         *)
(* A Block is a pair (ptr, size).  The state is the multiset of blocks     *)
(* that are currently owned by some variable of the caller (`live`), the   *)
(* bytes of the arena the blocks point into (`mem`), a record of the most  *)
(* recent call with its arguments and results (`last`), and whether the    *)
(* process is still running or has panicked (`pc`).                        *)
(*                                                                         *)
(* Spec is the geometry of blocks: split, merge_right, align, pop, the     *)
(* edge sentinels and the conversion into a pointer, from any set of       *)
(* blocks that do not alias.  SpecCopy is copy_to between two blocks that  *)
(* do not alias, over arbitrary bytes.                                     *)
(*                                                                         *)
(* Addresses are natural numbers.  Every block lies inside the arena       *)
(* 1 .. MaxAddr, so ptr + size never exceeds MaxAddr + 1: this is the type *)
(* invariant the source relies on ("the end is bounded by the address      *)
(* space"), under which none of the usize additions can wrap.              *)
(***************************************************************************)
EXTENDS Integers, FiniteSets, Bags, TLC

VARIABLES live, mem, last, pc

vars == <<live, mem, last, pc>>

\* ------------------------------------------------------------------ bounds
\* Last address of the arena; addresses 1 .. MaxAddr hold bytes.
MaxAddr == 5
\* Largest number of blocks the caller holds at once.
MaxLive == 3
\* Largest alignment target passed to align (0 is passed too).
MaxAlign == 4
\* Largest byte value stored in the arena.
MaxByte == 1

\* Split positions tried: every in-bound position and out-of-bound ones.
Positions == 0 .. (MaxAddr + 1)
Aligns == 0 .. MaxAlign
Addr == 1 .. MaxAddr
Byte == 0 .. MaxByte

\* ------------------------------------------------------------------ blocks
\* struct Block { size, ptr }.  Pointer<u8> is non-null, so ptr >= 1.
Block == { b \in [ptr : 1 .. (MaxAddr + 1), size : 0 .. MaxAddr] :
             b.ptr + b.size <= MaxAddr + 1 }

\* Placeholder in `last` for "no block in this position of the call".
\* Its null pointer distinguishes it from every Block.
NoBlock == [ptr |-> 0, size |-> 0]

empty(ptr) == [ptr |-> ptr, size |-> 0]

empty_left(self) == [ptr |-> self.ptr, size |-> 0]

empty_right(self) == [ptr |-> self.ptr + self.size, size |-> 0]

is_empty(self) == self.size = 0

aligned_to(self, align) == self.ptr % align = 0

\* left_to with the adjacency test weakened to "not right of".
left_to_le(self, to) == self.size + self.ptr <= to.ptr

left_to(self, to) == self.size + self.ptr = to.ptr

\* Ord for Block: the order of the start addresses.
cmp(self, other) ==
    IF self.ptr < other.ptr THEN "Less"
    ELSE IF self.ptr = other.ptr THEN "Equal"
    ELSE "Greater"

\* pop: mem::replace(self, Block::empty(self.ptr)); returns the old value.
pop(self) == [self |-> empty(self.ptr), ret |-> self]

\* merge_right that leaves the absorbed block as it was (no pop).
merge_right_nopop(self, block) ==
    IF is_empty(block)
    THEN [ok |-> TRUE, self |-> self, block |-> block]
    ELSE IF left_to(self, block)
    THEN [ok    |-> TRUE,
          self  |-> [ptr |-> self.ptr, size |-> self.size + block.size],
          block |-> block]
    ELSE [ok |-> FALSE, self |-> self, block |-> block]

\* merge_right that assigns the absorbed size instead of adding it.
merge_right_assign(self, block) ==
    IF is_empty(block)
    THEN [ok |-> TRUE, self |-> self, block |-> block]
    ELSE IF left_to(self, block)
    THEN LET p == pop(block)
         IN  [ok    |-> TRUE,
              self  |-> [ptr |-> self.ptr, size |-> p.ret.size],
              block |-> p.self]
    ELSE [ok |-> FALSE, self |-> self, block |-> block]

\* merge_right without the short cut for an empty right operand.
merge_right_adjacent_only(self, block) ==
    IF left_to(self, block)
    THEN LET p == pop(block)
         IN  [ok    |-> TRUE,
              self  |-> [ptr |-> self.ptr, size |-> self.size + p.ret.size],
              block |-> p.self]
    ELSE [ok |-> FALSE, self |-> self, block |-> block]

\* merge_right(&mut self, &mut block) -> Result<(), ()>
merge_right(self, block) ==
    IF is_empty(block)
    THEN [ok |-> TRUE, self |-> self, block |-> block]
    ELSE IF left_to(self, block)
    THEN LET p == pop(block)
         IN  [ok    |-> TRUE,
              self  |-> [ptr |-> self.ptr, size |-> self.size + p.ret.size],
              block |-> p.self]
    ELSE [ok |-> FALSE, self |-> self, block |-> block]

\* split whose assertion also rejects pos = size.
split_strict(self, pos) ==
    IF ~(pos < self.size)
    THEN [panic |-> TRUE, left |-> NoBlock, right |-> NoBlock]
    ELSE [panic |-> FALSE,
          left  |-> [ptr |-> self.ptr, size |-> pos],
          right |-> [ptr |-> self.ptr + pos, size |-> self.size - pos]]

\* split whose right half keeps the start address of the whole.
split_no_offset(self, pos) ==
    IF ~(pos <= self.size)
    THEN [panic |-> TRUE, left |-> NoBlock, right |-> NoBlock]
    ELSE [panic |-> FALSE,
          left  |-> [ptr |-> self.ptr, size |-> pos],
          right |-> [ptr |-> self.ptr, size |-> self.size - pos]]

\* split(self, pos) -> (Block, Block); the assertion panics when pos > size.
split(self, pos) ==
    IF ~(pos <= self.size)
    THEN [panic |-> TRUE, left |-> NoBlock, right |-> NoBlock]
    ELSE [panic |-> FALSE,
          left  |-> [ptr |-> self.ptr, size |-> pos],
          right |-> [ptr |-> self.ptr + pos, size |-> self.size - pos]]

\* aligner without the outer remainder.
aligner_no_mod(self, align) == align - (self.ptr % align)

\* let aligner = (align - *self.ptr as usize % align) % align;
aligner(self, align) == (align - (self.ptr % align)) % align

\* align whose suffix keeps the start address of the whole.
align_no_offset(self, al) ==
    IF al = 0
    THEN [panic |-> TRUE, some |-> FALSE, self |-> self,
          fst |-> NoBlock, snd |-> NoBlock]
    ELSE LET a == aligner(self, al)
         IN  IF a < self.size
             THEN LET p == pop(self)
                      old == p.ret
                  IN  [panic |-> FALSE, some |-> TRUE, self |-> p.self,
                       fst |-> [ptr |-> old.ptr, size |-> a],
                       snd |-> [ptr |-> old.ptr, size |-> old.size - a]]
             ELSE [panic |-> FALSE, some |-> FALSE, self |-> self,
                   fst |-> NoBlock, snd |-> NoBlock]

\* align whose bound check admits aligner = size.
align_le(self, al) ==
    IF al = 0
    THEN [panic |-> TRUE, some |-> FALSE, self |-> self,
          fst |-> NoBlock, snd |-> NoBlock]
    ELSE LET a == aligner(self, al)
         IN  IF a <= self.size
             THEN LET p == pop(self)
                      old == p.ret
                  IN  [panic |-> FALSE, some |-> TRUE, self |-> p.self,
                       fst |-> [ptr |-> old.ptr, size |-> a],
                       snd |-> [ptr |-> old.ptr + a, size |-> old.size - a]]
             ELSE [panic |-> FALSE, some |-> FALSE, self |-> self,
                   fst |-> NoBlock, snd |-> NoBlock]

\* align(&mut self, align) -> Option<(Block, Block)>.  The remainder by a
\* zero `align` panics before anything is changed.
align(self, al) ==
    IF al = 0
    THEN [panic |-> TRUE, some |-> FALSE, self |-> self,
          fst |-> NoBlock, snd |-> NoBlock]
    ELSE LET a == aligner(self, al)
         IN  IF a < self.size
             THEN LET p == pop(self)
                      old == p.ret
                  IN  [panic |-> FALSE, some |-> TRUE, self |-> p.self,
                       fst |-> [ptr |-> old.ptr, size |-> a],
                       snd |-> [ptr |-> old.ptr + a, size |-> old.size - a]]
             ELSE [panic |-> FALSE, some |-> FALSE, self |-> self,
                   fst |-> NoBlock, snd |-> NoBlock]

\* The byte range [ptr, ptr + n).
Range(ptr, n) == ptr .. (ptr + n - 1)

\* copy_to without the bound check.
copy_to_unchecked(self, block, m) ==
    [panic |-> FALSE,
     mems |-> {[x \in Addr |->
                  IF x \in Range(block.ptr, self.size)
                  THEN m[self.ptr + (x - block.ptr)]
                  ELSE m[x]]}]

\* copy_to(&self, &mut block): the assertion panics when the target is
\* smaller; otherwise ptr::copy_nonoverlapping(self.ptr, block.ptr, size).
\* The result is the set of memories the call can leave behind: copying
\* between overlapping ranges is undefined, so any memory may result.
copy_to(self, block, m) ==
    IF ~(self.size <= block.size)
    THEN [panic |-> TRUE, mems |-> {m}]
    ELSE IF Range(self.ptr, self.size) \cap Range(block.ptr, self.size) # {}
    THEN [panic |-> FALSE, mems |-> [Addr -> Byte]]
    ELSE [panic |-> FALSE,
          mems |-> {[x \in Addr |->
                       IF x \in Range(block.ptr, self.size)
                       THEN m[self.ptr + (x - block.ptr)]
                       ELSE m[x]]}]

\* From<Block> for Pointer<u8>: the block is consumed, its address is left.
into_pointer(from) == from.ptr

\* ------------------------------------------------------------------- state
\* The bag holding exactly one copy of b.
One(b) == SetToBag({b})

\* Guarantee 4 of Block: the buffers of the live blocks do not overlap.
Disjoint(bag) ==
    \A a \in BagToSet(bag) : \A b \in BagToSet(bag) :
        (~is_empty(a) /\ ~is_empty(b)) =>
            /\ CopiesIn(a, bag) = 1
            /\ a # b => Range(a.ptr, a.size) \cap Range(b.ptr, b.size) = {}

\* Two different live blocks (two copies of the same value count).
Two(a, b) ==
    /\ a \in BagToSet(live)
    /\ b \in BagToSet(live)
    /\ a # b \/ CopiesIn(a, live) >= 2

\* The record of a call: its receiver, second operand and argument before
\* the call, how it ended, both operands after it, and the blocks returned.
\* `origin` is the block whose split produced the operands of a merge_right
\* that directly follows that split (NoBlock otherwise).
Call(op, self, block, arg, status, self2, block2, out1, out2, origin) ==
    [op |-> op, self |-> self, block |-> block, arg |-> arg,
     status |-> status, self_post |-> self2, block_post |-> block2,
     out1 |-> out1, out2 |-> out2, origin |-> origin]

NoCall == Call("none", NoBlock, NoBlock, 0, "ok", NoBlock, NoBlock,
               NoBlock, NoBlock, NoBlock)

\* The bags of at most n blocks out of S.
RECURSIVE BagsUpTo(_, _)
BagsUpTo(S, n) ==
    IF n = 0 THEN {EmptyBag}
    ELSE LET smaller == BagsUpTo(S, n - 1)
         IN  smaller \cup { g (+) One(b) : g \in smaller, b \in S }

\* The blocks handed to from_raw_parts are valid and not aliased (its safety
\* contract).  The operations on the geometry of blocks neither read nor
\* write the bytes, which are left at zero here.
Init ==
    /\ live \in { g \in BagsUpTo(Block, MaxLive) : Disjoint(g) }
    /\ mem = [x \in Addr |-> 0]
    /\ last = NoCall
    /\ pc = "run"

Split ==
    \E b \in BagToSet(live), pos \in Positions :
        LET r == split(b, pos)
        IN  /\ pc = "run"
            /\ BagCardinality(live) < MaxLive
            /\ IF r.panic
               THEN /\ live' = live (-) One(b)
                    /\ pc' = "panicked"
                    /\ last' = Call("split", b, NoBlock, pos, "panic",
                                    NoBlock, NoBlock, NoBlock, NoBlock, NoBlock)
               ELSE /\ live' = (live (-) One(b)) (+) One(r.left) (+) One(r.right)
                    /\ pc' = pc
                    /\ last' = Call("split", b, NoBlock, pos, "ok",
                                    NoBlock, NoBlock, r.left, r.right, NoBlock)
            /\ mem' = mem

MergeRight ==
    \E a \in BagToSet(live), b \in BagToSet(live) :
        LET r == merge_right(a, b)
            from == IF /\ last.op = "split" /\ last.status = "ok"
                       /\ a = last.out1 /\ b = last.out2
                    THEN last.self ELSE NoBlock
        IN  /\ pc = "run"
            /\ Two(a, b)
            /\ live' = (live (-) One(a) (-) One(b)) (+) One(r.self) (+) One(r.block)
            /\ last' = Call("merge_right", a, b, 0,
                            IF r.ok THEN "ok" ELSE "err",
                            r.self, r.block, NoBlock, NoBlock, from)
            /\ UNCHANGED <<mem, pc>>

Align ==
    \E b \in BagToSet(live), al \in Aligns :
        LET r == align(b, al)
        IN  /\ pc = "run"
            /\ r.some => BagCardinality(live) + 2 <= MaxLive
            /\ live' = IF r.some
                       THEN (live (-) One(b)) (+) One(r.self)
                                (+) One(r.fst) (+) One(r.snd)
                       ELSE live
            /\ pc' = IF r.panic THEN "panicked" ELSE pc
            /\ last' = Call("align", b, NoBlock, al,
                            IF r.panic THEN "panic"
                            ELSE IF r.some THEN "some" ELSE "none",
                            r.self, NoBlock, r.fst, r.snd, NoBlock)
            /\ mem' = mem

Pop ==
    \E b \in BagToSet(live) :
        LET r == pop(b)
        IN  /\ pc = "run"
            /\ BagCardinality(live) < MaxLive
            /\ live' = (live (-) One(b)) (+) One(r.self) (+) One(r.ret)
            /\ last' = Call("pop", b, NoBlock, 0, "ok",
                            r.self, NoBlock, r.ret, NoBlock, NoBlock)
            /\ UNCHANGED <<mem, pc>>

EmptyLeft ==
    \E b \in BagToSet(live) :
        /\ pc = "run"
        /\ BagCardinality(live) < MaxLive
        /\ live' = live (+) One(empty_left(b))
        /\ last' = Call("empty_left", b, NoBlock, 0, "ok",
                        b, NoBlock, empty_left(b), NoBlock, NoBlock)
        /\ UNCHANGED <<mem, pc>>

EmptyRight ==
    \E b \in BagToSet(live) :
        /\ pc = "run"
        /\ BagCardinality(live) < MaxLive
        /\ live' = live (+) One(empty_right(b))
        /\ last' = Call("empty_right", b, NoBlock, 0, "ok",
                        b, NoBlock, empty_right(b), NoBlock, NoBlock)
        /\ UNCHANGED <<mem, pc>>

IntoPointer ==
    \E b \in BagToSet(live) :
        /\ pc = "run"
        /\ live' = live (-) One(b)
        /\ last' = Call("into_pointer", b, NoBlock, into_pointer(b), "ok",
                        NoBlock, NoBlock, NoBlock, NoBlock, NoBlock)
        /\ UNCHANGED <<mem, pc>>

CopyTo ==
    \E a \in BagToSet(live), b \in BagToSet(live) :
        LET r == copy_to(a, b, mem)
        IN  /\ pc = "run"
            /\ Two(a, b)
            /\ mem' \in r.mems
            /\ pc' = IF r.panic THEN "panicked" ELSE pc
            /\ last' = Call("copy_to", a, b, 0,
                            IF r.panic THEN "panic" ELSE "ok",
                            a, b, NoBlock, NoBlock, NoBlock)
            /\ live' = live

Next ==
    \/ Split
    \/ MergeRight
    \/ Align
    \/ Pop
    \/ EmptyLeft
    \/ EmptyRight
    \/ IntoPointer

Spec == Init /\ [][Next]_vars

\* Copying: a source and a destination block that do not alias, over
\* arbitrary bytes (as in test_mutate), and copies between them.
InitCopy ==
    /\ live \in { g \in BagsUpTo(Block, 2) : BagCardinality(g) = 2 /\ Disjoint(g) }
    /\ mem \in [Addr -> Byte]
    /\ last = NoCall
    /\ pc = "run"

NextCopy == CopyTo

SpecCopy == InitCopy /\ [][NextCopy]_vars

TypeOK ==
    /\ BagToSet(live) \subseteq Block
    /\ BagCardinality(live) <= MaxLive
    /\ mem \in [Addr -> Byte]
    /\ pc \in {"run", "panicked"}

\* ------------------------------------------------------------------ claims

\* C1: no byte is ever covered by two live blocks: the byte ranges of the
\* live non-empty blocks stay pairwise disjoint under split, merge_right,
\* align, pop, empty_left and empty_right.
C1_NoAliasing == Disjoint(live)

\* Two non-empty blocks were merged while a third non-empty block is live.
C1_Witness ==
    /\ last.op = "merge_right" /\ last.status = "ok"
    /\ ~is_empty(last.self) /\ ~is_empty(last.block)
    /\ \E c \in BagToSet(live) : ~is_empty(c) /\ c # last.self_post

\* C2: split(pos) panics exactly when pos > size; otherwise it returns
\* (start, pos) and (start + pos, size - pos), whose sizes add up to size.
C2_Split ==
    last.op = "split" =>
        LET s == last.self.ptr
            n == last.self.size
            pos == last.arg
        IN  /\ (last.status = "panic") <=> (pos > n)
            /\ last.status # "panic" =>
                 /\ last.out1 = [ptr |-> s, size |-> pos]
                 /\ last.out2 = [ptr |-> s + pos, size |-> n - pos]
                 /\ last.out1.size + last.out2.size = n

\* A split at the very end of a non-empty block returned.
C2_Witness ==
    /\ last.op = "split" /\ last.status = "ok"
    /\ last.self.size > 0 /\ last.arg = last.self.size

\* C3 as stated: splitting a non-empty block at any pos with 0 <= pos < size
\* gives halves with left < right in the block ordering.
C3_Original ==
    (/\ last.op = "split" /\ last.status = "ok"
     /\ last.self.size > 0 /\ 0 <= last.arg /\ last.arg < last.self.size)
        => cmp(last.out1, last.out2) = "Less"

\* C3 amended: splitting a non-empty block at any pos with 0 < pos < size
\* gives halves with left < right in the block ordering.
C3_SplitOrdered ==
    (/\ last.op = "split" /\ last.status = "ok"
     /\ last.self.size > 0 /\ 0 < last.arg /\ last.arg < last.self.size)
        => cmp(last.out1, last.out2) = "Less"

\* A split strictly inside a block returned.
C3_Witness ==
    /\ last.op = "split" /\ last.status = "ok"
    /\ 0 < last.arg /\ last.arg < last.self.size
    /\ ~is_empty(last.out1) /\ ~is_empty(last.out2)

\* C4: merge_right undoes split: merging the two halves of a split of B, at
\* any position 0 .. size, succeeds, leaves the left half with B's start
\* address and size, and leaves the right half empty.
C4_MergeUndoesSplit ==
    (last.op = "merge_right" /\ last.origin # NoBlock) =>
        /\ last.status = "ok"
        /\ last.self_post.ptr = last.origin.ptr
        /\ last.self_post.size = last.origin.size
        /\ is_empty(last.block_post)

\* The two non-empty halves of a split were merged again.
C4_Witness ==
    /\ last.op = "merge_right" /\ last.origin # NoBlock
    /\ ~is_empty(last.self) /\ ~is_empty(last.block)
    /\ last.self.size + last.block.size = last.origin.size

\* C5: merge_right with a non-empty block that does not start at the end of
\* the receiver fails and changes neither block.
C5_MergeNotAdjacent ==
    (/\ last.op = "merge_right" /\ ~is_empty(last.block)
     /\ last.self.ptr + last.self.size # last.block.ptr)
        => /\ last.status = "err"
           /\ last.self_post = last.self
           /\ last.block_post = last.block

\* A merge of two non-empty blocks with a gap between them was tried.
C5_Witness ==
    /\ last.op = "merge_right" /\ ~is_empty(last.block) /\ ~is_empty(last.self)
    /\ last.self.ptr + last.self.size < last.block.ptr

\* C6: merge_right with an empty block, adjacent or not, succeeds and leaves
\* the receiver's start address and size as they were.
C6_MergeEmpty ==
    (last.op = "merge_right" /\ is_empty(last.block)) =>
        /\ last.status = "ok"
        /\ last.self_post.ptr = last.self.ptr
        /\ last.self_post.size = last.self.size

\* An empty block that is not adjacent to the non-empty receiver was merged.
C6_Witness ==
    /\ last.op = "merge_right" /\ is_empty(last.block) /\ ~is_empty(last.self)
    /\ last.self.ptr + last.self.size # last.block.ptr

\* The least k >= 0 with (s + k) mod a = 0, found by search.
LeastOffset(s, a) ==
    CHOOSE k \in 0 .. (a - 1) :
        /\ (s + k) % a = 0
        /\ \A j \in 0 .. (k - 1) : (s + j) % a # 0

\* C7: for a >= 1 and k the least offset with (start + k) mod a = 0, whenever
\* k < size, align(a) returns the prefix (start, k) and the suffix
\* (start + k, size - k); the suffix is aligned to a and the sizes add up.
C7_Align ==
    (last.op = "align" /\ last.arg >= 1) =>
        LET s == last.self.ptr
            n == last.self.size
            a == last.arg
            k == LeastOffset(s, a)
        IN  k < n =>
              /\ last.status = "some"
              /\ last.out1 = [ptr |-> s, size |-> k]
              /\ last.out2 = [ptr |-> s + k, size |-> n - k]
              /\ aligned_to(last.out2, a)
              /\ last.out1.size + last.out2.size = n

\* A block was aligned to 3, which took a non-empty prefix off it.
C7_Witness ==
    /\ last.op = "align" /\ last.arg = 3 /\ last.status = "some"
    /\ ~is_empty(last.out1) /\ ~is_empty(last.out2)

\* C8 as stated: align(a) on any block already aligned to a returns an empty
\* prefix and a suffix with the block's start address and size.
C8_Original ==
    (last.op = "align" /\ last.arg >= 1 /\ aligned_to(last.self, last.arg)) =>
        /\ last.status = "some"
        /\ is_empty(last.out1)
        /\ last.out2 = last.self

\* C8 amended: align(a) on a non-empty block already aligned to a returns an
\* empty prefix and a suffix with the block's start address and size.
C8_AlignAligned ==
    (/\ last.op = "align" /\ last.arg >= 1 /\ aligned_to(last.self, last.arg)
     /\ ~is_empty(last.self)) =>
        /\ last.status = "some"
        /\ is_empty(last.out1)
        /\ last.out2 = last.self

\* A non-empty block was aligned to an a > 1 it was already aligned to.
C8_Witness ==
    /\ last.op = "align" /\ last.arg > 1 /\ last.self.ptr % last.arg = 0
    /\ ~is_empty(last.self) /\ last.status = "some"

\* C9: when the forward offset (a - start mod a) mod a is >= size, align(a)
\* returns None and leaves the block's start address and size as they were.
C9_AlignFails ==
    (/\ last.op = "align" /\ last.arg >= 1
     /\ (last.arg - (last.self.ptr % last.arg)) % last.arg >= last.self.size)
        => /\ last.status = "none"
           /\ last.self_post = last.self

\* A non-empty block exactly as long as the offset to the next multiple of a
\* was aligned to a.
C9_Witness ==
    /\ last.op = "align" /\ last.arg >= 1 /\ ~is_empty(last.self)
    /\ (last.self.ptr + last.self.size) % last.arg = 0
    /\ last.self.size < last.arg
    /\ last.status = "none"

\* C10: for blocks S and D that do not overlap, S.copy_to(D) panics when
\* D.size < S.size and then writes no byte; otherwise the first S.size bytes
\* of D become S's bytes, while S's bytes, the bytes of D past S.size, and
\* the addresses and sizes of both blocks stay as they were.
C10_Step ==
    LET S == last'.self
        D == last'.block
    IN  (/\ last'.op = "copy_to"
         /\ Range(S.ptr, S.size) \cap Range(D.ptr, D.size) = {}) =>
            IF D.size < S.size
            THEN last'.status = "panic" /\ mem' = mem
            ELSE /\ last'.status = "ok"
                 /\ \A i \in 0 .. (S.size - 1) : mem'[D.ptr + i] = mem[S.ptr + i]
                 /\ \A x \in Range(S.ptr, S.size) : mem'[x] = mem[x]
                 /\ \A x \in Range(D.ptr + S.size, D.size - S.size) : mem'[x] = mem[x]
                 /\ last'.self_post = S
                 /\ last'.block_post = D

C10_CopyTo == [][C10_Step]_vars

\* Two different bytes were copied into a longer block, which now starts
\* with them and whose next byte differs from the last one copied.
C10_Witness ==
    /\ last.op = "copy_to" /\ last.status = "ok"
    /\ last.self.size = 2 /\ last.block.size > 2
    /\ mem[last.self.ptr] # mem[last.self.ptr + 1]
    /\ mem[last.block.ptr] = mem[last.self.ptr]
    /\ mem[last.block.ptr + 1] = mem[last.self.ptr + 1]
    /\ mem[last.block.ptr + 2] # mem[last.block.ptr + 1]
====
